---- MODULE Spec2Model ----
(***************************************************************************)
(* Model of the subdomain registry: the definition validator               *)
(* (src/unnamed/part_000) and the Cloudflare reconciler                    *)
(* (src/scripts/sync-dns.js).                                              *)
(*                                                                         *)
(* Text is modelled as a sequence of tokens.  Host names are spelled       *)
(* character by character ("a", "b", ".", ...) so that endsWith, includes  *)
(* and split are computed on the characters as the JavaScript does; other  *)
(* strings (record types, addresses, targets) are one token long.          *)
(* JSON values are tagged records, so that typeof, `in` and === behave as  *)
(* in the source.                                                          *)
(***************************************************************************)
EXTENDS Integers, Sequences, FiniteSets, TLC

VARIABLES
    files,        \* repository content: file path -> parsed definition, or NoFile
    changes,      \* the change feed: sequence of [status, file]
    zone,         \* provider: DNS records of the zone, in listing order
    nextId,       \* provider: next record id to hand out
    rulesets,     \* provider: rulesets of the zone
    reserved,     \* validator: RESERVED_SUBDOMAINS, the flattened reserved list
    vpc,          \* validator process: "validating" | "passed" | "exit1" | "exit0"
    vi,           \* validator: index into the changed files
    verdict,      \* validator: file path -> reason reported by fail, "ok" or "unchecked"
    reads,        \* definition files whose content has been read (by either script)
    pc,           \* reconciler: position in sync-dns.js
    run,          \* number of the current reconciler run
    ci,           \* reconciler: index into changes
    sub,          \* reconciler: subdomain being processed
    data,         \* applyFile: the parsed definition
    existing,     \* applyFile / main: hostname-scoped snapshot of the zone
    keep,         \* applyFile: ids of matched remote records
    ri,           \* applyFile: index into data.records
    di,           \* index into existing (cleanup / delete loop)
    urlRecords,   \* syncRedirects: the URL records passed in
    rsIdx,        \* syncRedirects: index of the ruleset used
    currentRules, \* syncRedirects: rules fetched from the ruleset
    retpc,        \* syncRedirects: where the caller continues
    log           \* every remote call issued, in order

vars == <<files, changes, zone, nextId, rulesets, reserved, vpc, vi, verdict, reads, pc, run,
          ci, sub, data, existing, keep, ri, di, urlRecords, rsIdx, currentRules,
          retpc, log>>

-----------------------------------------------------------------------------
(* Text helpers (String.prototype.endsWith / startsWith / includes / split) *)

EndsWith(s, suffix) ==
    /\ Len(suffix) <= Len(s)
    /\ SubSeq(s, Len(s) - Len(suffix) + 1, Len(s)) = suffix

StartsWith(s, prefix) ==
    /\ Len(prefix) <= Len(s)
    /\ SubSeq(s, 1, Len(prefix)) = prefix

Includes(s, needle) ==
    \E i \in 1..(Len(s) - Len(needle) + 1) : SubSeq(s, i, i + Len(needle) - 1) = needle

IndexOf(s, c) ==
    IF \E i \in 1..Len(s) : s[i] = c
    THEN CHOOSE i \in 1..Len(s) : s[i] = c /\ \A j \in 1..(i - 1) : s[j] # c
    ELSE 0

RECURSIVE Split(_, _)
Split(s, c) ==
    IF IndexOf(s, c) = 0 THEN <<s>>
    ELSE <<SubSeq(s, 1, IndexOf(s, c) - 1)>> \o Split(SubSeq(s, IndexOf(s, c) + 1, Len(s)), c)

RECURSIVE Join(_, _)
Join(parts, c) ==
    IF Len(parts) = 0 THEN <<>>
    ELSE IF Len(parts) = 1 THEN parts[1]
    ELSE parts[1] \o <<c>> \o Join(Tail(parts), c)

\* s.replace(pat, ""): the first occurrence of pat removed
RemoveFirst(s, pat) ==
    IF Includes(s, pat)
    THEN LET i == CHOOSE k \in 1..(Len(s) - Len(pat) + 1) :
                     /\ SubSeq(s, k, k + Len(pat) - 1) = pat
                     /\ \A j \in 1..(k - 1) : SubSeq(s, j, j + Len(pat) - 1) # pat
         IN SubSeq(s, 1, i - 1) \o SubSeq(s, i + Len(pat), Len(s))
    ELSE s

-----------------------------------------------------------------------------
(* JSON values *)

Undefined == [t |-> "undefined"]
Null      == [t |-> "null"]
Bool(b)   == [t |-> "boolean", b |-> b]
Num(n)    == [t |-> "number", n |-> n]
Str(s)    == [t |-> "string", s |-> s]
Obj(o)    == [t |-> "object", o |-> o]
Arr(a)    == [t |-> "array", a |-> a]
S(tok)    == Str(<<tok>>)

TypeOf(v) ==
    IF v.t \in {"null", "object", "array"} THEN "object" ELSE v.t

\* o[k] on a JavaScript object held as a function from keys to values
Get(o, k) == IF k \in DOMAIN o THEN o[k] ELSE Undefined

\* JSON.stringify drops the keys whose value is undefined
Stringify(o) ==
    LET ks == {k \in DOMAIN o : o[k] # Undefined} IN [k \in ks |-> o[k]]

-----------------------------------------------------------------------------
(* sync-dns.js: pure helpers *)

\* process.env.CF_DOMAIN: the parent domain.  Its last label is itself a legal
\* subdomain label (as "dev" is under a .dev parent).
CF_DOMAIN == <<"x", ".", "b">>

Hostname(s, domain) == s \o <<".">> \o domain

\* variant: only the records named exactly sub.domain
recordsForSubdomainExact(s, all, domain) ==
    SelectSeq(all, LAMBDA r : r.name.s = Hostname(s, domain))

\* variant: the suffix is compared without its leading dot
recordsForSubdomainNoDot(s, all, domain) ==
    SelectSeq(all, LAMBDA r :
        r.name.s = Hostname(s, domain) \/ EndsWith(r.name.s, Hostname(s, domain)))

recordsForSubdomain(s, all, domain) ==
    LET suffix == Hostname(s, domain)
    IN SelectSeq(all, LAMBDA r :
           r.name.s = suffix \/ EndsWith(r.name.s, <<".">> \o suffix))

\* variant: CNAME records get no proxied flag
ProxiedTypesWithoutCname == {S("A"), S("AAAA")}

ProxiedTypes == {S("A"), S("AAAA"), S("CNAME")}
ContentTypes == {S("A"), S("AAAA"), S("CNAME"), S("TXT"), S("URL"), S("NS")}

\* r.name.split(".") pieces used by the SRV data block
SrvData(r) ==
    LET parts == Split(Get(r, "name").s, ".")
    IN Obj([service  |-> Str(parts[1]),
            proto    |-> IF Len(parts) >= 2 THEN Str(parts[2]) ELSE Undefined,
            name     |-> Str(Join(SubSeq(parts, 3, Len(parts)), ".")),
            priority |-> Get(r, "priority"),
            weight   |-> Get(r, "weight"),
            port     |-> Get(r, "port"),
            target   |-> Get(r, "target")])

buildPayload(r) ==
    LET type == Get(r, "type")
        base == [type |-> type, name |-> Get(r, "name"), ttl |-> Num(1)]
        proxied == IF type \in ProxiedTypes
                   THEN [proxied |-> IF Get(r, "proxied") \in {Undefined, Null}
                                     THEN Bool(FALSE) ELSE Get(r, "proxied")]
                   ELSE <<>>
        content == IF type \in ContentTypes THEN [content |-> Get(r, "value")]
                   ELSE IF type = S("MX")
                   THEN [content |-> Get(r, "target"), priority |-> Get(r, "priority")]
                   ELSE <<>>
        datablk == IF type = S("SRV") THEN [data |-> SrvData(r)]
                   ELSE IF type = S("CAA")
                   THEN [data |-> Obj([flags |-> Get(r, "flags"), tag |-> Get(r, "tag"),
                                       value |-> Get(r, "value")])]
                   ELSE IF type = S("DS")
                   THEN [data |-> Obj([key_tag |-> Get(r, "key_tag"),
                                       algorithm |-> Get(r, "algorithm"),
                                       digest_type |-> Get(r, "digest_type"),
                                       digest |-> Get(r, "digest")])]
                   ELSE IF type = S("TLSA")
                   THEN [data |-> Obj([usage |-> Get(r, "usage"),
                                       selector |-> Get(r, "selector"),
                                       matching_type |-> Get(r, "matching_type"),
                                       certificate |-> Get(r, "certificate")])]
                   ELSE <<>>
    IN IF type = S("URL")
       THEN [type |-> S("AAAA"), name |-> Get(r, "name"), content |-> S("100::"),
             ttl |-> Num(1), proxied |-> Bool(TRUE)]
       ELSE base @@ proxied @@ content @@ datablk

\* JSON.stringify of a data block (undefined for a missing block)
JsonOf(v) == IF v.t = "object" THEN Obj(Stringify(v.o)) ELSE v

sameRecord(e, payload) ==
    \A key \in DOMAIN payload :
        IF key = "data"
        THEN JsonOf(Get(e, "data")) = JsonOf(payload["data"])
        ELSE Get(e, key) = payload[key]

\* existing.find(e => e.type === payload.type && e.name === payload.name):
\* index of the first match, 0 when there is none
FindMatch(ex, payload) ==
    LET hits == {i \in 1..Len(ex) :
                    ex[i].type = payload.type /\ ex[i].name = payload.name}
    IN IF hits = {} THEN 0 ELSE CHOOSE i \in hits : \A j \in hits : i <= j

\* data.records.filter(r => r.type === "URL")
UrlRecordsOf(records) == SelectSeq(records, LAMBDA r : Get(r.o, "type") = S("URL"))

-----------------------------------------------------------------------------
(* syncRedirects: pure parts *)

Quote == "\""

Expression(hostname) == <<"(http.host eq ", Quote>> \o hostname \o <<Quote, ")">>

NewRule(hostname, r) ==
    [description |-> <<"Redirect: ">> \o hostname,
     expression  |-> Expression(hostname),
     action      |-> "redirect",
     target_url  |-> Get(r.o, "value"),
     status_code |-> 301,
     preserve_query_string |-> TRUE]

\* variant: the hostname is looked for without the surrounding quotes
OtherRulesUnquoted(current, hostname) ==
    SelectSeq(current, LAMBDA r : ~Includes(r.expression, hostname))

OtherRules(current, hostname) ==
    SelectSeq(current, LAMBDA r :
        ~Includes(r.expression, <<Quote>> \o hostname \o <<Quote>>))

NewRules(urls, hostname) == [i \in 1..Len(urls) |-> NewRule(hostname, urls[i])]

\* variant: only new rules cause a write
NeedsWriteOnlyForNewRules(other, new, current) == Len(new) > 0

NeedsWrite(other, new, current) ==
    Len(other) + Len(new) # Len(current) \/ Len(new) > 0

RedirectPhase == "http_request_dynamic_redirect"

\* sets.find(s => s.phase === ... && s.kind === "zone"): index, 0 when absent
FindRuleset(sets) ==
    LET hits == {i \in 1..Len(sets) :
                    sets[i].phase = RedirectPhase /\ sets[i].kind = "zone"}
    IN IF hits = {} THEN 0 ELSE CHOOSE i \in hits : \A j \in hits : i <= j

-----------------------------------------------------------------------------
(* The provider behind cf(): what each call does to the zone.  A record name
   that is not already under the zone's domain is stored qualified with it;
   listings return the qualified name (the form recordsForSubdomain filters
   on). *)

Qualify(name) ==
    IF name = CF_DOMAIN \/ EndsWith(name, <<".">> \o CF_DOMAIN)
    THEN name
    ELSE name \o <<".">> \o CF_DOMAIN

Stored(payload, id) ==
    LET p == Stringify(payload)
    IN [k \in DOMAIN p \cup {"id"} |->
           IF k = "id" THEN id
           ELSE IF k = "name" /\ p[k].t = "string" THEN Str(Qualify(p[k].s))
           ELSE p[k]]

ProviderCreate(z, id, payload) == Append(z, Stored(payload, id))

ProviderUpdate(z, id, payload) ==
    [i \in 1..Len(z) |-> IF z[i].id = id THEN Stored(payload, id) ELSE z[i]]

ProviderDelete(z, id) == SelectSeq(z, LAMBDA r : r.id # id)

-----------------------------------------------------------------------------
(* The validator (src/unnamed/part_000): pure parts *)

ALLOWED_TYPES ==
    {<<"A">>, <<"AAAA">>, <<"CNAME">>, <<"TXT">>, <<"URL">>, <<"MX">>, <<"SRV">>,
     <<"CAA">>, <<"NS">>, <<"DS">>, <<"TLSA">>}

REQUIRED_TOP_KEYS == <<"user", "subdomain", "records">>
ALLOWED_TOP_KEYS  == {"user", "description", "subdomain", "records"}
REQUIRED_USER_KEYS == <<"username">>

ALLOWED_RECORD_KEYS ==
    {"type", "name", "value", "proxied", "priority", "target", "weight", "port",
     "flags", "tag", "key_tag", "algorithm", "digest_type", "digest",
     "usage", "selector", "matching_type", "certificate"}

MAX_RECORDS == 0

Digits    == {"0", "1", "2", "3", "4", "5", "6", "7", "8", "9"}
Lowercase == {"a", "b", "c", "d", "e", "f", "g", "h", "i", "j", "k", "l", "m",
              "n", "o", "p", "q", "r", "s", "t", "u", "v", "w", "x", "y", "z"}
HexDigits == Digits \cup {"a", "b", "c", "d", "e", "f", "A", "B", "C", "D", "E", "F"}

\* (25[0-5]|2[0-4]\d|1?\d?\d)
Octet(s) ==
    /\ Len(s) \in 1..3
    /\ \A i \in 1..Len(s) : s[i] \in Digits
    /\ Len(s) = 3 =>
          \/ s[1] = "1"
          \/ s[1] = "2" /\ s[2] \in {"0", "1", "2", "3", "4"}
          \/ s[1] = "2" /\ s[2] = "5" /\ s[3] \in {"0", "1", "2", "3", "4", "5"}

IPV4_REGEX(s) ==
    LET parts == Split(s, ".")
    IN Len(parts) = 4 /\ \A i \in 1..4 : Octet(parts[i])

\* [0-9a-fA-F]{1,4}
Hextet(s) == Len(s) \in 1..4 /\ \A i \in 1..Len(s) : s[i] \in HexDigits

\* the five alternatives of the pattern, on the pieces between the colons
IPV6_REGEX(s) ==
    LET parts == Split(s, ":")
        n == Len(parts)
        Groups(from, to) == \A i \in from..to : Hextet(parts[i])
    IN \/ n = 8 /\ Groups(1, 8)
       \/ s = <<":", ":">>
       \/ n \in 3..9 /\ Groups(1, n - 2) /\ parts[n - 1] = <<>> /\ parts[n] = <<>>
       \/ n \in 3..9 /\ parts[1] = <<>> /\ Groups(2, n - 1) /\ parts[n] = <<>>
       \/ n \in 3..8 /\ Groups(1, n - 2) /\ parts[n - 1] = <<>> /\ Hextet(parts[n])

\* String(v) for the values a record's type can hold
ToStr(v) ==
    IF v.t = "string" THEN v.s
    ELSE IF v.t = "undefined" THEN <<"undefined">>
    ELSE IF v.t = "null" THEN <<"null">>
    ELSE IF v.t = "boolean" THEN (IF v.b THEN <<"true">> ELSE <<"false">>)
    ELSE <<"[object]">>

\* toUpperCase, token by token
UpperTok(c) ==
    CASE c = "a" -> "A" [] c = "aaaa" -> "AAAA" [] c = "cname" -> "CNAME"
      [] c = "txt" -> "TXT" [] c = "url" -> "URL" [] c = "Url" -> "URL"
      [] c = "mx" -> "MX" [] c = "srv" -> "SRV" [] c = "caa" -> "CAA"
      [] c = "ns" -> "NS" [] c = "ds" -> "DS" [] c = "tlsa" -> "TLSA"
      [] c = "undefined" -> "UNDEFINED" [] c = "b" -> "B" [] c = "x" -> "X"
      [] c = "w" -> "W" [] c = "null" -> "NULL" [] c = "foo" -> "FOO"
      [] OTHER -> c

ToUpperCase(s) == [i \in 1..Len(s) |-> UpperTok(s[i])]

\* toLowerCase, token by token
LowerTok(c) ==
    CASE c = "A" -> "a" [] c = "B" -> "b" [] c = "X" -> "x" [] c = "W" -> "w"
      [] OTHER -> c

ToLowerCase(s) == [i \in 1..Len(s) |-> LowerTok(s[i])]

\* /^[a-z0-9-]+$/.test(v): test() converts its argument to a string
SubdomainRegex(v) ==
    LET s == ToStr(v)
    IN Len(s) >= 1 /\ \A i \in 1..Len(s) : s[i] \in Lowercase \cup Digits \cup {"-"}

\* !v
Falsy(v) ==
    \/ v.t \in {"undefined", "null"}
    \/ v.t = "boolean" /\ ~v.b
    \/ v.t = "number" /\ v.n = 0
    \/ v.t = "string" /\ v.s = <<>>

IsNum(v) == v.t = "number"
IsStr(v) == v.t = "string"

\* the per-type branch of the record loop (lines 222-346)
TypeReason(type, r) ==
    LET f(k) == Get(r, k) IN
    CASE type = <<"A">> ->
           IF ~IsStr(f("value")) THEN "A record requires string 'value'"
           ELSE IF ~IPV4_REGEX(f("value").s) THEN "invalid IPv4 address" ELSE "ok"
      [] type = <<"AAAA">> ->
           IF ~IsStr(f("value")) THEN "AAAA record requires string 'value'"
           ELSE IF ~IPV6_REGEX(f("value").s) THEN "invalid IPv6 address" ELSE "ok"
      [] type = <<"CNAME">> ->
           IF ~IsStr(f("value")) THEN "CNAME record requires string 'value'" ELSE "ok"
      [] type = <<"TXT">> ->
           IF ~IsStr(f("value")) THEN "TXT record requires string 'value'" ELSE "ok"
      [] type = <<"URL">> ->
           IF ~IsStr(f("value")) THEN "URL record requires string 'value'" ELSE "ok"
      [] type = <<"MX">> ->
           IF ~IsStr(f("target")) THEN "MX record requires string 'target'"
           ELSE IF ~IsNum(f("priority")) \/ f("priority").n < 0
           THEN "MX record requires non-negative 'priority'" ELSE "ok"
      [] type = <<"SRV">> ->
           IF ~IsNum(f("priority")) \/ f("priority").n < 0
           THEN "SRV record requires non-negative 'priority'"
           ELSE IF ~IsNum(f("weight")) \/ f("weight").n < 0
           THEN "SRV record requires non-negative 'weight'"
           ELSE IF ~IsNum(f("port")) \/ f("port").n <= 0
           THEN "SRV record requires positive 'port'"
           ELSE IF ~IsStr(f("target")) THEN "SRV record requires string 'target'"
           ELSE "ok"
      [] type = <<"CAA">> ->
           IF ~IsNum(f("flags")) THEN "CAA record requires numeric 'flags'"
           ELSE IF ~IsStr(f("tag")) THEN "CAA record requires string 'tag'"
           ELSE IF ~IsStr(f("value")) THEN "CAA record requires string 'value'"
           ELSE "ok"
      [] type = <<"NS">> ->
           IF ~IsStr(f("value")) THEN "NS record requires string 'value'" ELSE "ok"
      [] type = <<"DS">> ->
           IF ~IsNum(f("key_tag")) THEN "DS record requires numeric 'key_tag'"
           ELSE IF ~IsNum(f("algorithm")) THEN "DS record requires numeric 'algorithm'"
           ELSE IF ~IsNum(f("digest_type")) THEN "DS record requires numeric 'digest_type'"
           ELSE IF ~IsStr(f("digest")) THEN "DS record requires string 'digest'"
           ELSE "ok"
      [] type = <<"TLSA">> ->
           IF ~IsNum(f("usage")) THEN "TLSA record requires numeric 'usage'"
           ELSE IF ~IsNum(f("selector")) THEN "TLSA record requires numeric 'selector'"
           ELSE IF ~IsNum(f("matching_type"))
           THEN "TLSA record requires numeric 'matching_type'"
           ELSE IF ~IsStr(f("certificate")) THEN "TLSA record requires string 'certificate'"
           ELSE "ok"
      [] OTHER -> "unreachable record type"

\* variant: the record type is looked at before the type of the value
ProxiedReasonTypeFirst(type, r) ==
    IF "proxied" \in DOMAIN r
    THEN IF type \notin {<<"A">>, <<"AAAA">>, <<"CNAME">>}
         THEN "'proxied' is only allowed for A, AAAA, and CNAME records"
         ELSE IF TypeOf(r["proxied"]) # "boolean" THEN "'proxied' must be a boolean"
         ELSE "ok"
    ELSE "ok"

\* the `"proxied" in r` block (lines 179-185)
ProxiedReason(type, r) ==
    IF "proxied" \in DOMAIN r
    THEN IF TypeOf(r["proxied"]) # "boolean" THEN "'proxied' must be a boolean"
         ELSE IF type \notin {<<"A">>, <<"AAAA">>, <<"CNAME">>}
         THEN "'proxied' is only allowed for A, AAAA, and CNAME records"
         ELSE "ok"
    ELSE "ok"

\* variant: no root-name rule for NS and DS records
RecordReasonWithoutRootCheck(rv, d) ==
    IF TypeOf(rv) # "object" \/ rv = Null THEN "record must be an object"
    ELSE
    LET r == IF rv.t = "object" THEN rv.o ELSE <<>>
        type == ToUpperCase(ToStr(Get(r, "type")))
        name == Get(r, "name")
        subdomain == Get(d, "subdomain")
    IN IF ProxiedReason(type, r) # "ok" THEN ProxiedReason(type, r)
       ELSE IF \E key \in DOMAIN r : key \notin ALLOWED_RECORD_KEYS
       THEN "invalid record key"
       ELSE IF type \notin ALLOWED_TYPES THEN "unsupported record type"
       ELSE IF TypeOf(name) # "string" THEN "record name must be a string"
       ELSE IF Includes(name.s, <<"*">>) THEN "wildcard records are not allowed"
       ELSE IF name.s # subdomain.s /\ ~EndsWith(name.s, <<".">> \o subdomain.s)
       THEN "record outside assigned subdomain"
       ELSE TypeReason(type, r)

\* variant: the record keys are looked at after the type membership
RecordReasonKeysAfterType(rv, d) ==
    IF TypeOf(rv) # "object" \/ rv = Null THEN "record must be an object"
    ELSE
    LET r == IF rv.t = "object" THEN rv.o ELSE <<>>
        type == ToUpperCase(ToStr(Get(r, "type")))
        name == Get(r, "name")
        subdomain == Get(d, "subdomain")
    IN IF ProxiedReason(type, r) # "ok" THEN ProxiedReason(type, r)
       ELSE IF type \in {<<"NS">>, <<"DS">>} /\ name # subdomain
       THEN (IF type = <<"NS">>
             THEN "NS records must be set on the subdomain exactly, not a child"
             ELSE "DS records must be set on the subdomain exactly, not a child")
       ELSE IF type \notin ALLOWED_TYPES THEN "unsupported record type"
       ELSE IF \E key \in DOMAIN r : key \notin ALLOWED_RECORD_KEYS
       THEN "invalid record key"
       ELSE IF TypeOf(name) # "string" THEN "record name must be a string"
       ELSE IF Includes(name.s, <<"*">>) THEN "wildcard records are not allowed"
       ELSE IF name.s # subdomain.s /\ ~EndsWith(name.s, <<".">> \o subdomain.s)
       THEN "record outside assigned subdomain"
       ELSE TypeReason(type, r)

\* one iteration of the record loop (lines 171-347): the reason of the first
\* check that fails, "ok" when none does
RecordReason(rv, d) ==
    IF TypeOf(rv) # "object" \/ rv = Null THEN "record must be an object"
    ELSE
    LET r == IF rv.t = "object" THEN rv.o ELSE <<>>
        type == ToUpperCase(ToStr(Get(r, "type")))
        name == Get(r, "name")
        subdomain == Get(d, "subdomain")
    IN IF ProxiedReason(type, r) # "ok" THEN ProxiedReason(type, r)
       ELSE IF type \in {<<"NS">>, <<"DS">>} /\ name # subdomain
       THEN (IF type = <<"NS">>
             THEN "NS records must be set on the subdomain exactly, not a child"
             ELSE "DS records must be set on the subdomain exactly, not a child")
       ELSE IF \E key \in DOMAIN r : key \notin ALLOWED_RECORD_KEYS
       THEN "invalid record key"
       ELSE IF type \notin ALLOWED_TYPES THEN "unsupported record type"
       ELSE IF TypeOf(name) # "string" THEN "record name must be a string"
       ELSE IF Includes(name.s, <<"*">>) THEN "wildcard records are not allowed"
       ELSE IF name.s # subdomain.s /\ ~EndsWith(name.s, <<".">> \o subdomain.s)
       THEN "record outside assigned subdomain"
       ELSE TypeReason(type, r)

RecordType(rv) == ToUpperCase(ToStr(Get(rv.o, "type")))

\* File contents that are no definition
NoFile  == [t |-> "nofile"]
BadJson == [t |-> "badjson"]

\* variant: a DS record looks for an NS record among the records before it
FileReasonNsBeforeDs(file, content, reservedList) ==
    IF content = BadJson THEN "invalid JSON"
    ELSE
    LET d == content.o
        subdomain == Get(d, "subdomain")
        user == Get(d, "user")
        records == Get(d, "records")
        recs == IF records.t = "array" THEN records.a ELSE <<>>
        bad == {i \in 1..Len(recs) : RecordReason(recs[i], d) # "ok"}
        hasDS == \E i \in 1..Len(recs) : RecordType(recs[i]) = <<"DS">>
        hasNS == \A j \in 1..Len(recs) :
                     RecordType(recs[j]) = <<"DS">> =>
                         \E i \in 1..(j - 1) : RecordType(recs[i]) = <<"NS">>
    IN IF \E key \in DOMAIN d : key \notin ALLOWED_TOP_KEYS
       THEN "extra top-level key"
       ELSE IF \E i \in 1..Len(REQUIRED_TOP_KEYS) : REQUIRED_TOP_KEYS[i] \notin DOMAIN d
       THEN "missing required key"
       ELSE IF TypeOf(user) # "object" \/ user = Null THEN "user must be an object"
       ELSE IF \E i \in 1..Len(REQUIRED_USER_KEYS) :
                  Falsy(IF user.t = "object" THEN Get(user.o, REQUIRED_USER_KEYS[i])
                        ELSE Undefined)
       THEN "user.username is required"
       ELSE IF ~SubdomainRegex(subdomain) THEN "invalid subdomain format"
       ELSE IF subdomain.t # "string" THEN "TypeError"
       ELSE IF \E i \in 1..Len(reservedList) : reservedList[i] = ToLowerCase(subdomain.s)
       THEN "the subdomain is reserved and cannot be registered"
       ELSE IF file # <<"domains/">> \o subdomain.s \o <<".json">>
       THEN "filename must match subdomain"
       ELSE IF records.t # "array" THEN "records must be an array"
       ELSE IF Len(recs) = 0 THEN "at least one DNS record is required"
       ELSE IF MAX_RECORDS # 0 /\ Len(recs) > MAX_RECORDS
       THEN "maximum DNS records allowed"
       ELSE IF bad # {}
       THEN RecordReason(recs[CHOOSE i \in bad : \A j \in bad : i <= j], d)
       ELSE IF hasDS /\ ~hasNS THEN "DS records are useless without NS records."
       ELSE "ok"

\* the body of the file loop (lines 99-352): the reason passed to fail by the
\* first check that fails, "ok" when the file passes
FileReason(file, content, reservedList) ==
    IF content = BadJson THEN "invalid JSON"
    ELSE
    LET d == content.o
        subdomain == Get(d, "subdomain")
        user == Get(d, "user")
        records == Get(d, "records")
        recs == IF records.t = "array" THEN records.a ELSE <<>>
        bad == {i \in 1..Len(recs) : RecordReason(recs[i], d) # "ok"}
        hasNS == \E i \in 1..Len(recs) : RecordType(recs[i]) = <<"NS">>
        hasDS == \E i \in 1..Len(recs) : RecordType(recs[i]) = <<"DS">>
    IN IF \E key \in DOMAIN d : key \notin ALLOWED_TOP_KEYS
       THEN "extra top-level key"
       ELSE IF \E i \in 1..Len(REQUIRED_TOP_KEYS) : REQUIRED_TOP_KEYS[i] \notin DOMAIN d
       THEN "missing required key"
       ELSE IF TypeOf(user) # "object" \/ user = Null THEN "user must be an object"
       ELSE IF \E i \in 1..Len(REQUIRED_USER_KEYS) :
                  Falsy(IF user.t = "object" THEN Get(user.o, REQUIRED_USER_KEYS[i])
                        ELSE Undefined)
       THEN "user.username is required"
       ELSE IF ~SubdomainRegex(subdomain) THEN "invalid subdomain format"
       ELSE IF subdomain.t # "string" THEN "TypeError"
       ELSE IF \E i \in 1..Len(reservedList) : reservedList[i] = ToLowerCase(subdomain.s)
       THEN "the subdomain is reserved and cannot be registered"
       ELSE IF file # <<"domains/">> \o subdomain.s \o <<".json">>
       THEN "filename must match subdomain"
       ELSE IF records.t # "array" THEN "records must be an array"
       ELSE IF Len(recs) = 0 THEN "at least one DNS record is required"
       ELSE IF MAX_RECORDS # 0 /\ Len(recs) > MAX_RECORDS
       THEN "maximum DNS records allowed"
       ELSE IF bad # {}
       THEN RecordReason(recs[CHOOSE i \in bad : \A j \in bad : i <= j], d)
       ELSE IF hasDS /\ ~hasNS THEN "DS records are useless without NS records."
       ELSE "ok"

\* variant: the message is printed but the process goes on
failWithoutExit(msg) == "validating"

\* fail(msg): process.exit(1)
fail(msg) == "exit1"

\* lines 88-91: the changed files the validator looks at
IsDomainFile(f) == StartsWith(f, <<"domains/">>) /\ EndsWith(f, <<".json">>)

ValidatorFiles ==
    LET paths == [i \in 1..Len(changes) |-> changes[i].file]
    IN SelectSeq(paths, IsDomainFile)

-----------------------------------------------------------------------------
(* The validator process *)

\* lines 93-96: nothing to validate
ValidatorEmpty ==
    /\ vpc = "validating" /\ Len(ValidatorFiles) = 0
    /\ vpc' = "exit0"
    /\ UNCHANGED <<files, changes, zone, nextId, rulesets, reserved, vi, verdict, reads,
                   pc, run, ci, sub, data, existing, keep, ri, di, urlRecords, rsIdx,
                   currentRules, retpc, log>>

\* lines 102-105: a file that no longer exists is skipped, unread
ValidateMissing ==
    /\ vpc = "validating" /\ vi <= Len(ValidatorFiles)
    /\ files[ValidatorFiles[vi]] = NoFile
    /\ vi' = vi + 1
    /\ UNCHANGED <<files, changes, zone, nextId, rulesets, reserved, vpc, verdict, reads,
                   pc, run, ci, sub, data, existing, keep, ri, di, urlRecords, rsIdx,
                   currentRules, retpc, log>>

\* lines 107-352: one file read and checked; the first failure ends the process
ValidateFile ==
    /\ vpc = "validating" /\ vi <= Len(ValidatorFiles)
    /\ files[ValidatorFiles[vi]] # NoFile
    /\ LET file == ValidatorFiles[vi]
           reason == FileReason(file, files[file], reserved)
       IN /\ reads' = reads \cup {file}
          /\ verdict' = [verdict EXCEPT ![file] = reason]
          /\ vpc' = IF reason # "ok" THEN fail(reason) ELSE vpc
          /\ vi' = vi + 1
    /\ UNCHANGED <<files, changes, zone, nextId, rulesets, reserved,
                   pc, run, ci, sub, data, existing, keep, ri, di, urlRecords, rsIdx,
                   currentRules, retpc, log>>

\* line 355: every file passed
ValidatorDone ==
    /\ vpc = "validating" /\ Len(ValidatorFiles) > 0 /\ vi > Len(ValidatorFiles)
    /\ vpc' = "passed"
    /\ UNCHANGED <<files, changes, zone, nextId, rulesets, reserved, vi, verdict, reads,
                   pc, run, ci, sub, data, existing, keep, ri, di, urlRecords, rsIdx,
                   currentRules, retpc, log>>

\* The deployment pipeline starts the reconciler only after the validator has
\* ended with exit code 0.
PipelineGate == vpc \in {"passed", "exit0"}

-----------------------------------------------------------------------------
(* The reconciler process (sync-dns.js) *)

MaxRuns == 2

\* lines 239-247: the change feed as the reconciler parses it
Changes == SelectSeq(changes, LAMBDA c : IsDomainFile(c.file))

\* line 250
SubOf(file) == RemoveFirst(RemoveFirst(file, <<"domains/">>), <<".json">>)

PER_PAGE == 500

\* listAllRecords: pages of PER_PAGE records are fetched until a short page
RECURSIVE ListFrom(_, _, _)
ListFrom(z, page, records) ==
    LET from  == (page - 1) * PER_PAGE + 1
        to    == IF page * PER_PAGE < Len(z) THEN page * PER_PAGE ELSE Len(z)
        batch == SubSeq(z, from, to)
    IN IF Len(batch) < PER_PAGE THEN records \o batch
       ELSE ListFrom(z, page + 1, records \o batch)

listAllRecords(z) == ListFrom(z, 1, <<>>)

\* variant: an unsuccessful result is not turned into an exception
cfWithoutThrow(success) == "returned"

\* cf(): the call returns json.result, or throws when json.success is false
cf(success) == IF success THEN "returned" ELSE "thrown"

NoTarget == [id |-> 0, name |-> <<>>]
TargetOf(e) == [id |-> e.id, name |-> e.name.s]

\* one awaited cf() call: it is logged, and an exception ends the run
Call(op, target, success, nextpc) ==
    /\ log' = Append(log, [run |-> run, ci |-> ci, op |-> op, target |-> target,
                           ok |-> success])
    /\ pc' = IF cf(success) = "returned" THEN nextpc ELSE "aborted"

Records == IF Get(data, "records").t = "array" THEN Get(data, "records").a ELSE <<>>

Payload == buildPayload(Records[ri].o)

Match == FindMatch(existing, Payload)

providerVars == <<zone, nextId, rulesets>>
inputVars    == <<files, changes, reserved>>
validatorVars == <<vpc, vi, verdict>>
redirectVars == <<urlRecords, rsIdx, currentRules, retpc>>

\* lines 252-255: a deleted file; the zone is listed and scoped to the hostname
DeleteList ==
    /\ PipelineGate /\ pc = "main" /\ ci <= Len(Changes)
    /\ Changes[ci].status = "D"
    /\ \E success \in BOOLEAN :
          /\ Call("dns_list", NoTarget, success, "d_loop")
          /\ sub' = SubOf(Changes[ci].file)
          /\ existing' = recordsForSubdomain(SubOf(Changes[ci].file),
                                            listAllRecords(zone), CF_DOMAIN)
          /\ di' = 1
    /\ UNCHANGED <<inputVars, providerVars, validatorVars, redirectVars, reads, run, ci,
                   data, keep, ri>>

\* lines 257-261
DeleteRecord ==
    /\ pc = "d_loop" /\ di <= Len(existing)
    /\ \E success \in BOOLEAN :
          /\ Call("dns_delete", TargetOf(existing[di]), success, "d_loop")
          /\ zone' = IF success THEN ProviderDelete(zone, existing[di].id) ELSE zone
    /\ di' = di + 1
    /\ UNCHANGED <<inputVars, nextId, rulesets, validatorVars, redirectVars, reads, run,
                   ci, sub, data, existing, keep, ri>>

\* line 264: syncRedirects(sub, [], CF_DOMAIN)
DeleteLoopEnd ==
    /\ pc = "d_loop" /\ di > Len(existing)
    /\ pc' = "sr_sets"
    /\ urlRecords' = <<>>
    /\ retpc' = "next"
    /\ UNCHANGED <<inputVars, providerVars, validatorVars, rsIdx, currentRules, reads,
                   run, ci, sub, data, existing, keep, ri, di, log>>

\* lines 182-190: applyFile reads the file and lists the zone
ApplyList ==
    /\ PipelineGate /\ pc = "main" /\ ci <= Len(Changes)
    /\ Changes[ci].status # "D"
    /\ reads' = reads \cup {Changes[ci].file}
    /\ LET content == files[Changes[ci].file]
       IN IF content.t # "object" \/ Get(content.o, "records").t # "array"
             \/ Get(content.o, "subdomain").t # "string"
          THEN /\ pc' = "crashed"
               /\ UNCHANGED <<data, sub, existing, keep, ri, log>>
          ELSE \E success \in BOOLEAN :
                  /\ Call("dns_list", NoTarget, success, "af_loop")
                  /\ data' = content.o
                  /\ sub' = content.o.subdomain.s
                  /\ existing' = recordsForSubdomain(content.o.subdomain.s,
                                                    listAllRecords(zone), CF_DOMAIN)
                  /\ keep' = {}
                  /\ ri' = 1
    /\ UNCHANGED <<inputVars, providerVars, validatorVars, redirectVars, run, ci, di>>

\* lines 199-208, match found and equal: the record is kept, no call
ApplyKeep ==
    /\ pc = "af_loop" /\ ri <= Len(Records)
    /\ Match # 0 /\ sameRecord(existing[Match], Payload)
    /\ keep' = keep \cup {existing[Match].id}
    /\ ri' = ri + 1
    /\ UNCHANGED <<inputVars, providerVars, validatorVars, redirectVars, reads, pc, run,
                   ci, sub, data, existing, di, log>>

\* lines 199-208, match found and different: PUT of the payload
ApplyUpdate ==
    /\ pc = "af_loop" /\ ri <= Len(Records)
    /\ Match # 0 /\ ~sameRecord(existing[Match], Payload)
    /\ keep' = keep \cup {existing[Match].id}
    /\ \E success \in BOOLEAN :
          /\ Call("dns_update", TargetOf(existing[Match]) @@ [body |-> Payload],
               success, "af_loop")
          /\ zone' = IF success THEN ProviderUpdate(zone, existing[Match].id, Payload)
                     ELSE zone
    /\ ri' = ri + 1
    /\ UNCHANGED <<inputVars, nextId, rulesets, validatorVars, redirectVars, reads, run,
                   ci, sub, data, existing, di>>

\* lines 209-215, no match: POST of the payload
ApplyCreate ==
    /\ pc = "af_loop" /\ ri <= Len(Records)
    /\ Match = 0
    /\ \E success \in BOOLEAN :
          /\ Call("dns_create", [id |-> 0, name |-> Payload.name.s, body |-> Payload],
               success, "af_loop")
          /\ zone' = IF success THEN ProviderCreate(zone, nextId, Payload) ELSE zone
          /\ nextId' = IF success THEN nextId + 1 ELSE nextId
    /\ ri' = ri + 1
    /\ UNCHANGED <<inputVars, rulesets, validatorVars, redirectVars, reads, run,
                   ci, sub, data, existing, keep, di>>

\* lines 218-222: redirect rules are synced only when there are URL records
ApplyLoopEnd ==
    /\ pc = "af_loop" /\ ri > Len(Records)
    /\ urlRecords' = UrlRecordsOf(Records)
    /\ pc' = IF Len(UrlRecordsOf(Records)) > 0 THEN "sr_sets" ELSE "af_cleanup"
    /\ retpc' = "af_cleanup"
    /\ di' = 1
    /\ UNCHANGED <<inputVars, providerVars, validatorVars, rsIdx, currentRules, reads,
                   run, ci, sub, data, existing, keep, ri, log>>

\* lines 225-232, a kept record
CleanupSkip ==
    /\ pc = "af_cleanup" /\ di <= Len(existing)
    /\ existing[di].id \in keep
    /\ di' = di + 1
    /\ UNCHANGED <<inputVars, providerVars, validatorVars, redirectVars, reads, pc, run,
                   ci, sub, data, existing, keep, ri, log>>

\* variant: the cleanup does not look at the kept ids
CleanupDeleteKept ==
    /\ pc = "af_cleanup" /\ di <= Len(existing)
    /\ \E success \in BOOLEAN :
          /\ Call("dns_delete", TargetOf(existing[di]), success, "af_cleanup")
          /\ zone' = IF success THEN ProviderDelete(zone, existing[di].id) ELSE zone
    /\ di' = di + 1
    /\ UNCHANGED <<inputVars, nextId, rulesets, validatorVars, redirectVars, reads, run,
                   ci, sub, data, existing, keep, ri>>

\* lines 225-232, a record that was not matched: DELETE
CleanupDelete ==
    /\ pc = "af_cleanup" /\ di <= Len(existing)
    /\ existing[di].id \notin keep
    /\ \E success \in BOOLEAN :
          /\ Call("dns_delete", TargetOf(existing[di]), success, "af_cleanup")
          /\ zone' = IF success THEN ProviderDelete(zone, existing[di].id) ELSE zone
    /\ di' = di + 1
    /\ UNCHANGED <<inputVars, nextId, rulesets, validatorVars, redirectVars, reads, run,
                   ci, sub, data, existing, keep, ri>>

\* applyFile returns; the main loop takes the next change
CleanupEnd ==
    /\ pc = "af_cleanup" /\ di > Len(existing)
    /\ pc' = "main"
    /\ ci' = ci + 1
    /\ UNCHANGED <<inputVars, providerVars, validatorVars, redirectVars, reads, run,
                   sub, data, existing, keep, ri, di, log>>

-----------------------------------------------------------------------------
(* syncRedirects(sub, urlRecords, domain) *)

\* (await cf(...)).rules || []
RulesOf(rs) == IF "rules" \in DOMAIN rs THEN rs.rules ELSE <<>>

WithRules(rs, rules) ==
    [k \in DOMAIN rs \cup {"rules"} |-> IF k = "rules" THEN rules ELSE rs[k]]

\* line 40: the body of the ruleset-creating POST, as the provider stores it
NewRuleset(id) ==
    [id |-> id, name |-> "GitOps Redirects", kind |-> "zone", phase |-> RedirectPhase,
     rules |-> <<>>]

\* the caller continues: applyFile goes on to its cleanup, the main loop to the
\* next change
Return ==
    IF retpc = "af_cleanup" THEN pc' = "af_cleanup" /\ ci' = ci
    ELSE pc' = "main" /\ ci' = ci + 1

\* lines 34-35: the zone's rulesets are listed and the redirect ruleset looked up
SrList ==
    /\ pc = "sr_sets"
    /\ \E success \in BOOLEAN :
          Call("rs_list", NoTarget, success,
               IF FindRuleset(rulesets) = 0 THEN "sr_create" ELSE "sr_get")
    /\ rsIdx' = FindRuleset(rulesets)
    /\ UNCHANGED <<inputVars, providerVars, validatorVars, urlRecords, currentRules,
                   retpc, reads, run, ci, sub, data, existing, keep, ri, di>>

\* lines 37-42: no redirect ruleset yet: it is created, empty
SrCreate ==
    /\ pc = "sr_create"
    /\ \E success \in BOOLEAN :
          /\ Call("rs_create", NoTarget, success, "sr_get")
          /\ rulesets' = IF success THEN Append(rulesets, NewRuleset(Len(rulesets) + 1))
                         ELSE rulesets
          /\ rsIdx' = IF success THEN Len(rulesets) + 1 ELSE rsIdx
    /\ UNCHANGED <<inputVars, zone, nextId, validatorVars, urlRecords, currentRules,
                   retpc, reads, run, ci, sub, data, existing, keep, ri, di>>

\* line 45: the current rules are fetched
SrGet ==
    /\ pc = "sr_get"
    /\ \E success \in BOOLEAN : Call("rs_get", NoTarget, success, "sr_put")
    /\ currentRules' = IF rsIdx \in 1..Len(rulesets) THEN RulesOf(rulesets[rsIdx])
                       ELSE <<>>
    /\ UNCHANGED <<inputVars, providerVars, validatorVars, urlRecords, rsIdx,
                   retpc, reads, run, ci, sub, data, existing, keep, ri, di>>

\* lines 63-69: the rule list is replaced by otherRules followed by newRules
SrPut ==
    /\ pc = "sr_put"
    /\ LET hostname == Hostname(sub, CF_DOMAIN)
           other == OtherRules(currentRules, hostname)
           new == NewRules(urlRecords, hostname)
       IN /\ NeedsWrite(other, new, currentRules)
          /\ \E success \in BOOLEAN :
                /\ log' = Append(log, [run |-> run, ci |-> ci, op |-> "rs_put",
                                       target |-> NoTarget, ok |-> success])
                /\ IF cf(success) = "returned" THEN Return
                   ELSE pc' = "aborted" /\ ci' = ci
                /\ rulesets' = IF success /\ rsIdx \in 1..Len(rulesets)
                               THEN [rulesets EXCEPT
                                        ![rsIdx] = WithRules(rulesets[rsIdx], other \o new)]
                               ELSE rulesets
    /\ UNCHANGED <<inputVars, zone, nextId, validatorVars, redirectVars, reads, run,
                   sub, data, existing, keep, ri, di>>

\* line 63, condition false: nothing is written
SrSkip ==
    /\ pc = "sr_put"
    /\ LET hostname == Hostname(sub, CF_DOMAIN)
       IN ~NeedsWrite(OtherRules(currentRules, hostname),
                      NewRules(urlRecords, hostname), currentRules)
    /\ Return
    /\ UNCHANGED <<inputVars, providerVars, validatorVars, redirectVars, reads, run,
                   sub, data, existing, keep, ri, di, log>>

\* line 271: every change has been processed
Complete ==
    /\ PipelineGate /\ pc = "main" /\ ci > Len(Changes)
    /\ pc' = "complete"
    /\ UNCHANGED <<inputVars, providerVars, validatorVars, redirectVars, reads, run, ci,
                   sub, data, existing, keep, ri, di, log>>

\* the script is run again on the same change feed and the same files
Rerun ==
    /\ pc = "complete" /\ run < MaxRuns /\ Len(Changes) > 0
    /\ run' = run + 1
    /\ ci' = 1
    /\ pc' = "main"
    /\ UNCHANGED <<inputVars, providerVars, validatorVars, redirectVars, reads,
                   sub, data, existing, keep, ri, di, log>>

-----------------------------------------------------------------------------
(* Initial states: a repository, a change feed and a zone *)

MaxRecords == 2
MaxChanges == 2

sAB == <<"a", "b">>
sB  == <<"b">>
Subdomains == {sAB, sB}

FileOf(s) == <<"domains/">> \o s \o <<".json">>

V1   == <<"1", ".", "1", ".", "1", ".", "1">>
V2   == <<"1", ".", "1", ".", "1", ".", "2">>
VBad == <<"9", "9", "9", ".", "1", ".", "1", ".", "1">>

RecA(name, value) == Obj([type |-> S("A"), name |-> Str(name), value |-> Str(value)])
RecURL(name, target) == Obj([type |-> S("URL"), name |-> Str(name), value |-> S(target)])

\* Records a contributor may write for a subdomain.  Under the parent x.b the
\* owner of subdomain b can also spell a name in full (b.x.b ends with .b).
RecordPool(s) ==
    IF s = sB
    THEN {RecA(Hostname(sB, CF_DOMAIN), V1), RecA(Hostname(sB, CF_DOMAIN), V2)}
    ELSE {RecA(s, V1), RecA(s, V2), RecURL(s, "u1")}

\* the record lists of at most n records, each record listed once
SeqsUpTo(pool, n) ==
    {q \in UNION {[1..k -> pool] : k \in 1..n} :
        \A i, j \in 1..Len(q) : i # j => q[i] # q[j]}

Definition(s, recs) ==
    Obj([user |-> Obj([username |-> S("u")]), subdomain |-> Str(s), records |-> Arr(recs)])

\* the last one is rejected by the validator (999.1.1.1 is no IPv4 address)
DefinitionPool(s) ==
    {Definition(s, recs) : recs \in SeqsUpTo(RecordPool(s), MaxRecords)}
        \cup {Definition(s, <<RecA(s, VBad)>>)}

ChangePool ==
    {[status |-> st, file |-> FileOf(s)] : st \in {"A", "M", "D"}, s \in Subdomains}

FeedPool ==
    {f \in UNION {[1..k -> ChangePool] : k \in 0..MaxChanges} :
        \A i, j \in 1..Len(f) : i # j => f[i].file # f[j].file}

\* the files of the repository after the change: a deleted file is gone, an
\* added or modified one holds a definition
FilesFor(feed) ==
    {fs \in [{FileOf(s) : s \in Subdomains} ->
                {NoFile} \cup UNION {DefinitionPool(s) : s \in Subdomains}] :
        \A s \in Subdomains :
            IF \E i \in 1..Len(feed) : feed[i].file = FileOf(s) /\ feed[i].status # "D"
            THEN fs[FileOf(s)] \in DefinitionPool(s)
            ELSE fs[FileOf(s)] = NoFile}

OldRule(hostname) == NewRule(hostname, RecURL(hostname, "u0"))

ZonePool ==
    {<<>>,
     <<Stored(buildPayload(RecA(sAB, V1).o), 1),
       Stored(buildPayload(RecA(sB, V1).o), 2),
       Stored(buildPayload(RecA(<<"a", ".", "b">>, V1).o), 3)>>}

RulesetPool ==
    {<<[id |-> 1, name |-> "limits", kind |-> "zone", phase |-> "http_ratelimit"]>>,
     <<[id |-> 1, name |-> "GitOps Redirects", kind |-> "zone", phase |-> RedirectPhase]>>,
     <<[id |-> 1, name |-> "limits", kind |-> "zone", phase |-> "http_ratelimit"],
       [id |-> 2, name |-> "GitOps Redirects", kind |-> "zone", phase |-> RedirectPhase,
        rules |-> <<OldRule(Hostname(sAB, CF_DOMAIN)),
                    OldRule(Hostname(<<"a", ".", "b">>, CF_DOMAIN)),
                    OldRule(Hostname(sB, CF_DOMAIN))>>]>>}

Init ==
    /\ changes \in FeedPool
    /\ files \in FilesFor(changes)
    /\ zone \in ZonePool
    /\ nextId = Len(zone) + 1
    /\ rulesets \in RulesetPool
    /\ reserved = << <<"w", "w", "w">> >>
    /\ vpc = "validating"
    /\ vi = 1
    /\ verdict = [f \in {FileOf(s) : s \in Subdomains} |-> "unchecked"]
    /\ reads = {}
    /\ pc = "main"
    /\ run = 1
    /\ ci = 1
    /\ sub = <<>>
    /\ data = <<>>
    /\ existing = <<>>
    /\ keep = {}
    /\ ri = 1
    /\ di = 1
    /\ urlRecords = <<>>
    /\ rsIdx = 0
    /\ currentRules = <<>>
    /\ retpc = "next"
    /\ log = <<>>

Next ==
    \/ ValidatorEmpty
    \/ ValidateMissing
    \/ ValidateFile
    \/ ValidatorDone
    \/ DeleteList
    \/ DeleteRecord
    \/ DeleteLoopEnd
    \/ ApplyList
    \/ ApplyKeep
    \/ ApplyUpdate
    \/ ApplyCreate
    \/ ApplyLoopEnd
    \/ CleanupSkip
    \/ CleanupDelete
    \/ CleanupEnd
    \/ SrList
    \/ SrCreate
    \/ SrGet
    \/ SrPut
    \/ SrSkip
    \/ Complete
    \/ Rerun

Spec == Init /\ [][Next]_vars

-----------------------------------------------------------------------------
(* Properties of the reconciler, checked under Spec *)

DnsMutations == {"dns_create", "dns_update", "dns_delete"}
RulesetOps   == {"rs_list", "rs_create", "rs_get", "rs_put"}

\* no remote call has reported an unsuccessful result so far
NoFailure == \A i \in 1..Len(log) : log[i].ok

\* the change a logged call was issued for
ChangeOf(i) == Changes[log[i].ci]

\* the rules of the redirect ruleset, <<>> when the zone has none
RedirectRules ==
    IF FindRuleset(rulesets) = 0 THEN <<>> ELSE RulesOf(rulesets[FindRuleset(rulesets)])

RulesFor(rules, hostname) ==
    SelectSeq(rules, LAMBDA r : r.expression = Expression(hostname))

RulesNotFor(rules, hostname) ==
    SelectSeq(rules, LAMBDA r : r.expression # Expression(hostname))

InScope(name, s) ==
    name = Hostname(s, CF_DOMAIN) \/ EndsWith(name, <<".">> \o Hostname(s, CF_DOMAIN))

ScopeOf(z, s) == SelectSeq(z, LAMBDA r : InScope(r.name.s, s))

\* the change with index j has been processed to its end in the current run
Processed(j) ==
    /\ j \in 1..Len(Changes)
    /\ \/ pc = "complete"
       \/ pc = "main" /\ j < ci

\* C1 (as claimed): idempotence.  When applyFile has run on a validated
\* definition and is run again on it with nothing else touching the zone (a
\* feed of one added or modified file, run twice without a remote failure),
\* the second run issues no DNS create, update or delete call.
C1_SecondRunIssuesNoDnsMutation ==
    \A i \in 1..Len(log) :
        (/\ Len(Changes) = 1
         /\ Changes[1].status # "D"
         /\ log[i].run = 2
         /\ \A j \in 1..(i - 1) : log[j].ok)
        => log[i].op \notin DnsMutations

C5_RulesFollowUrlRecords ==
    \A j \in 1..Len(Changes) :
        (/\ Processed(j) /\ j = ci - 1 /\ pc = "main"
         /\ Changes[j].status # "D"
         /\ NoFailure)
        => Len(RulesFor(RedirectRules, Hostname(SubOf(Changes[j].file), CF_DOMAIN)))
              = Len(UrlRecordsOf(files[Changes[j].file].o.records.a))

\* C6 (as claimed): within one file every DNS create, update and delete call
\* precedes the first ruleset call of that file, and the calls of one file
\* precede those of the next.
C6_DnsCallsBeforeRulesetCalls ==
    \A i, j \in 1..Len(log) :
        (i < j /\ log[i].run = log[j].run)
        => /\ log[i].ci <= log[j].ci
           /\ log[i].ci = log[j].ci =>
                 ~(log[i].op \in RulesetOps /\ log[j].op \in DnsMutations)


C4_OtherHostRulesKept ==
    [][(pc \in {"sr_sets", "sr_create", "sr_get", "sr_put"})
          => (RulesNotFor(RedirectRules', Hostname(sub, CF_DOMAIN))
                 = RulesNotFor(RedirectRules, Hostname(sub, CF_DOMAIN)))]_vars

\* the ruleset has been rewritten for b.x.b while it held the rules of ab.x.b
\* (which ends in the text b.x.b) and of the child a.b.x.b
C4_Witness ==
    /\ \E i \in 1..Len(log) :
          log[i].op = "rs_put" /\ log[i].ok /\ SubOf(ChangeOf(i).file) = sB
    /\ RulesNotFor(RedirectRules, Hostname(sB, CF_DOMAIN))
          = <<OldRule(Hostname(sAB, CF_DOMAIN)),
              OldRule(Hostname(<<"a", ".", "b">>, CF_DOMAIN))>>
    /\ RulesFor(RedirectRules, Hostname(sB, CF_DOMAIN)) = <<>>

\* C7: deletion of a subdomain.  The definition file of a deleted subdomain
\* is never read, and when its change has been processed without a remote
\* failure no record in its hostname scope and no redirect rule for its
\* hostname is left.
C7_DeletedSubdomainIsGone ==
    \A j \in 1..Len(Changes) :
        Changes[j].status = "D" =>
            /\ Changes[j].file \notin reads
            /\ (pc \in {"main", "complete"} /\ j = ci - 1 /\ NoFailure) =>
                  /\ ScopeOf(zone, SubOf(Changes[j].file)) = <<>>
                  /\ RulesFor(RedirectRules,
                              Hostname(SubOf(Changes[j].file), CF_DOMAIN)) = <<>>

\* a deletion has removed a record of a child label and rewritten the ruleset
C7_Witness ==
    /\ pc = "complete" /\ NoFailure
    /\ \E i, k \in 1..Len(log) :
          /\ ChangeOf(i).status = "D" /\ log[i].ci = log[k].ci
          /\ log[i].op = "dns_delete"
          /\ log[i].target.name = Hostname(<<"a", ".", "b">>, CF_DOMAIN)
          /\ log[k].op = "rs_put"

\* C8: fail-fast.  A remote call that reports an unsuccessful result is the
\* last call of the run (nothing is retried, nothing further is issued), the
\* run is then aborted, and the step that fails undoes nothing: the zone and
\* the ruleset stay as the earlier calls left them.
C8_FailFast ==
    /\ [](/\ \A i \in 1..(Len(log) - 1) : log[i].ok
          /\ ~NoFailure => pc = "aborted")
    /\ [][(pc' = "aborted") => (zone' = zone /\ rulesets' = rulesets)]_vars

\* a call has failed after a DNS mutation was applied, with a change pending
C8_Witness ==
    /\ pc = "aborted" /\ ci < Len(Changes)
    /\ ~log[Len(log)].ok
    /\ \E i \in 1..Len(log) :
          log[i].op = "dns_create" /\ log[i].ok
          /\ \E k \in 1..Len(zone) : zone[k].name.s = Qualify(log[i].target.name)

\* C9: the reconciler only mutates its own slice of the zone.  Every update
\* and delete call of a run for subdomain s targets a record whose name is
\* s.domain or ends with .s.domain.
C9_OnlyOwnScopeMutated ==
    \A i \in 1..Len(log) :
        log[i].op \in {"dns_update", "dns_delete"}
            => InScope(log[i].target.name, SubOf(ChangeOf(i).file))

\* subdomain b has had a record deleted while ab.x.b is in the zone
C9_Witness ==
    /\ \E i \in 1..Len(log) :
          log[i].op = "dns_delete" /\ log[i].ok /\ SubOf(ChangeOf(i).file) = sB
    /\ \E k \in 1..Len(zone) : zone[k].name.s = Hostname(sAB, CF_DOMAIN)


-----------------------------------------------------------------------------
(* The validator alone, on one added file drawn from a wider family of
   definitions (SpecV) *)

VTypes == {"A", "CNAME", "TXT", "URL", "a", "txt"}

\* the `proxied` key: absent, a boolean, a string, null
VProxied ==
    {<<>>, [proxied |-> Bool(TRUE)], [proxied |-> Bool(FALSE)], [proxied |-> S("yes")],
     [proxied |-> Null]}

VRecordPool ==
    {Obj([type |-> S(ty), name |-> Str(sAB), value |-> Str(V1)] @@ px) :
        ty \in VTypes, px \in VProxied}

VDefinitionPool ==
    {Definition(sAB, recs) : recs \in SeqsUpTo(VRecordPool, MaxRecords)}

InitV ==
    /\ changes = <<[status |-> "A", file |-> FileOf(sAB)]>>
    /\ files \in {[f \in {FileOf(s) : s \in Subdomains} |->
                      IF f = FileOf(sAB) THEN d ELSE NoFile] : d \in VDefinitionPool}
    /\ zone = <<>>
    /\ nextId = 1
    /\ rulesets = <<>>
    /\ reserved = << <<"w", "w", "w">> >>
    /\ vpc = "validating"
    /\ vi = 1
    /\ verdict = [f \in {FileOf(s) : s \in Subdomains} |-> "unchecked"]
    /\ reads = {}
    /\ pc = "main"
    /\ run = 1
    /\ ci = 1
    /\ sub = <<>>
    /\ data = <<>>
    /\ existing = <<>>
    /\ keep = {}
    /\ ri = 1
    /\ di = 1
    /\ urlRecords = <<>>
    /\ rsIdx = 0
    /\ currentRules = <<>>
    /\ retpc = "next"
    /\ log = <<>>

NextV ==
    \/ ValidateFile
    \/ ValidatorDone

SpecV == InitV /\ [][NextV]_vars

\* the records of the validated file, and its verdict
VFile == FileOf(sAB)
VData == files[VFile].o
VRecs == VData.records.a

\* record k is reached: the file has been checked and every record before k
\* passes all its checks
Reached(k) ==
    /\ verdict[VFile] # "unchecked"
    /\ k \in 1..Len(VRecs)
    /\ \A j \in 1..(k - 1) : RecordReason(VRecs[j], VData) = "ok"

HasProxied(k) == "proxied" \in DOMAIN VRecs[k].o

ProxiedTypeOk(k) == RecordType(VRecs[k]) \in {<<"A">>, <<"AAAA">>, <<"CNAME">>}

\* C10 (as claimed): `proxied` is accepted only as a boolean on an A, AAAA or
\* CNAME record, and a record of any other type that carries `proxied`,
\* whatever its value, fails with the only-allowed-for-A-AAAA-CNAME reason.
C10_ProxiedOnOtherTypeAlwaysTypeReason ==
    /\ verdict[VFile] = "ok" =>
          \A k \in 1..Len(VRecs) :
              HasProxied(k) => TypeOf(VRecs[k].o.proxied) = "boolean" /\ ProxiedTypeOk(k)
    /\ \A k \in 1..Len(VRecs) :
          (Reached(k) /\ HasProxied(k) /\ ~ProxiedTypeOk(k))
          => verdict[VFile] = "'proxied' is only allowed for A, AAAA, and CNAME records"

\* C10 (amended): `proxied` is accepted only as a boolean on an A, AAAA or
\* CNAME record; a non-boolean `proxied` fails with the must-be-a-boolean
\* reason on every record type, and a boolean `proxied` on a record of any
\* other type fails with the only-allowed-for-A-AAAA-CNAME reason.
C10_ProxiedAmended ==
    /\ verdict[VFile] = "ok" =>
          \A k \in 1..Len(VRecs) :
              HasProxied(k) => TypeOf(VRecs[k].o.proxied) = "boolean" /\ ProxiedTypeOk(k)
    /\ \A k \in 1..Len(VRecs) :
          (Reached(k) /\ HasProxied(k)) =>
              IF TypeOf(VRecs[k].o.proxied) # "boolean"
              THEN verdict[VFile] = "'proxied' must be a boolean"
              ELSE ~ProxiedTypeOk(k) =>
                      verdict[VFile]
                         = "'proxied' is only allowed for A, AAAA, and CNAME records"

\* a TXT record with a string `proxied`, after a record that passes, has been
\* rejected
C10_Witness ==
    /\ Len(VRecs) = 2 /\ Reached(2)
    /\ RecordType(VRecs[2]) = <<"TXT">>
    /\ Get(VRecs[2].o, "proxied") = S("yes")
    /\ verdict[VFile] = "'proxied' must be a boolean"
    /\ vpc = "exit1"

-----------------------------------------------------------------------------
(* The validator on further families of definitions.  Each family is drawn
   for the one added file domains/ab.json. *)

\* the state before the validator starts on a definition of the family
\* `defs`, with the reserved list `res`
InitValidator(defs, res) ==
    /\ changes = <<[status |-> "A", file |-> FileOf(sAB)]>>
    /\ files \in {[f \in {FileOf(s) : s \in Subdomains} |->
                      IF f = FileOf(sAB) THEN d ELSE NoFile] : d \in defs}
    /\ zone = <<>>
    /\ nextId = 1
    /\ rulesets = <<>>
    /\ reserved \in res
    /\ vpc = "validating"
    /\ vi = 1
    /\ verdict = [f \in {FileOf(s) : s \in Subdomains} |-> "unchecked"]
    /\ reads = {}
    /\ pc = "main"
    /\ run = 1
    /\ ci = 1
    /\ sub = <<>>
    /\ data = <<>>
    /\ existing = <<>>
    /\ keep = {}
    /\ ri = 1
    /\ di = 1
    /\ urlRecords = <<>>
    /\ rsIdx = 0
    /\ currentRules = <<>>
    /\ retpc = "next"
    /\ log = <<>>

\* a record of kind ty whose own fields satisfy the kind's contract
RecOf(ty, name) ==
    LET base == [type |-> S(ty), name |-> name]
    IN Obj(CASE ty \in {"A", "a"} -> base @@ [value |-> Str(V1)]
             [] ty \in {"TXT", "CNAME", "NS", "ns", "URL", "url"} ->
                  base @@ [value |-> S("t")]
             [] ty = "MX" -> base @@ [target |-> S("t"), priority |-> Num(10)]
             [] ty \in {"DS", "ds"} -> base @@ [key_tag |-> Num(1), algorithm |-> Num(13),
                                      digest_type |-> Num(2), digest |-> S("d")]
             [] OTHER -> base)

-----------------------------------------------------------------------------
(* Record names (SpecN) *)

NTypes == {"A", "TXT", "NS", "DS"}

\* the subdomain, a child label, another subdomain, a name that ends with the
\* subdomain's text but not with a dot before it, a wildcard, a number
NNames ==
    {Str(sAB), Str(<<"a", ".", "a", "b">>), Str(sB), Str(<<"x", "a", "b">>),
     Str(<<"*", ".", "b">>), Num(1)}

NRecordPool == {RecOf(ty, n) : ty \in NTypes, n \in NNames}

NDefinitionPool == {Definition(sAB, recs) : recs \in SeqsUpTo(NRecordPool, MaxRecords)}

InitN == InitValidator(NDefinitionPool, {<< <<"w", "w", "w">> >>})

SpecN == InitN /\ [][NextV]_vars

\* r.name !== data.subdomain && !r.name.endsWith("." + data.subdomain), for
\* the names of record k (a name that is no string has neither property)
OutsideName(k) ==
    LET name == Get(VRecs[k].o, "name")
    IN \/ name.t # "string"
       \/ name.s # VData.subdomain.s /\ ~EndsWith(name.s, <<".">> \o VData.subdomain.s)

\* C11 (as claimed): a record whose name neither equals the subdomain nor ends
\* with "." + subdomain makes validation fail with the reason "record outside
\* assigned subdomain", whatever the record's type and whatever the name.
C11_OutsideNameAlwaysOutsideReason ==
    \A k \in 1..Len(VRecs) :
        (Reached(k) /\ OutsideName(k))
        => verdict[VFile] = "record outside assigned subdomain"

\* C11 (amended): a record whose name neither equals the subdomain nor ends
\* with "." + subdomain always makes validation fail.  The reason is "record
\* outside assigned subdomain" when the record is not an NS or DS record and
\* its name is a string without "*"; an NS or DS record fails with the
\* must-be-set-on-the-subdomain-exactly reason, a name that is no string with
\* "record name must be a string", a name holding "*" with the wildcard
\* reason.
C11_OutsideNameAmended ==
    \A k \in 1..Len(VRecs) :
        (Reached(k) /\ OutsideName(k)) =>
            LET name == Get(VRecs[k].o, "name")
                type == RecordType(VRecs[k])
            IN verdict[VFile] =
                 IF type = <<"NS">>
                 THEN "NS records must be set on the subdomain exactly, not a child"
                 ELSE IF type = <<"DS">>
                 THEN "DS records must be set on the subdomain exactly, not a child"
                 ELSE IF name.t # "string" THEN "record name must be a string"
                 ELSE IF Includes(name.s, <<"*">>) THEN "wildcard records are not allowed"
                 ELSE "record outside assigned subdomain"

\* an NS record named after another subdomain, after a record that passes,
\* has been rejected with the root-name reason
C11_Witness ==
    /\ Len(VRecs) = 2 /\ Reached(2)
    /\ RecordType(VRecs[2]) = <<"NS">>
    /\ Get(VRecs[2].o, "name") = Str(sB)
    /\ verdict[VFile] = "NS records must be set on the subdomain exactly, not a child"
    /\ vpc = "exit1"

-----------------------------------------------------------------------------
(* DS and NS records (SpecD) *)

\* NS records with three values (one of them the empty string), DS records,
\* both also spelled in lower case, other valid records, and one record that
\* fails its own checks
DRecordPool ==
    {RecOf("DS", Str(sAB)), RecOf("ds", Str(sAB)),
     RecOf("NS", Str(sAB)), RecOf("ns", Str(sAB)),
     Obj([type |-> S("NS"), name |-> Str(sAB), value |-> Str(<<>>)]),
     Obj([type |-> S("NS"), name |-> Str(sAB), value |-> Str(V1)]),
     RecOf("A", Str(sAB)), RecOf("TXT", Str(<<"a", ".", "a", "b">>)),
     RecA(sAB, VBad)}

DDefinitionPool == {Definition(sAB, recs) : recs \in SeqsUpTo(DRecordPool, MaxRecords)}

InitD == InitValidator(DDefinitionPool, {<< <<"w", "w", "w">> >>})

SpecD == InitD /\ [][NextV]_vars

\* the valid NS records a contributor may add
NsRecords == {r \in DRecordPool : Get(r.o, "type") \in {S("NS"), S("ns")}}

IsDs(r) == Get(r.o, "type") \in {S("DS"), S("ds")}
IsNs(r) == Get(r.o, "type") \in {S("NS"), S("ns")}

\* every record passes the checks made on it alone
EachRecordValid == \A k \in 1..Len(VRecs) : RecordReason(VRecs[k], VData) = "ok"

\* the records with x put at position pos
InsertAt(q, pos, x) == SubSeq(q, 1, pos - 1) \o <<x>> \o SubSeq(q, pos, Len(q))

\* C12: DS requires NS.  A checked definition whose records are each valid,
\* with a DS record and no NS record, has failed with the DS-requires-NS
\* reason, and the same definition with one valid NS record added, whatever
\* its value and at whatever position, passes; a definition of valid records
\* that holds both kinds has passed.
C12_DsRequiresNs ==
    (verdict[VFile] # "unchecked" /\ EachRecordValid /\ \E k \in 1..Len(VRecs) : IsDs(VRecs[k]))
    => IF \E k \in 1..Len(VRecs) : IsNs(VRecs[k])
       THEN verdict[VFile] = "ok"
       ELSE /\ verdict[VFile] = "DS records are useless without NS records."
            /\ vpc = "exit1"
            /\ \A ns \in NsRecords : \A pos \in 1..(Len(VRecs) + 1) :
                  FileReason(VFile, Definition(sAB, InsertAt(VRecs, pos, ns)), reserved)
                     = "ok"

\* a definition with the DS record first and an NS record with an empty value
\* after it has passed
C12_Witness ==
    /\ vpc = "passed" /\ verdict[VFile] = "ok"
    /\ Len(VRecs) = 2
    /\ IsDs(VRecs[1])
    /\ VRecs[2] = Obj([type |-> S("NS"), name |-> Str(sAB), value |-> Str(<<>>)])

-----------------------------------------------------------------------------
(* The reserved list (SpecR) *)

\* reserved-subdomains.json could not be read or parsed
Unreadable == [t |-> "unreadable"]

\* Object.values(reservedData).filter(val => Array.isArray(val)).flat(), on
\* the file's members in their order; the elements are strings
RECURSIVE FlatArrays(_)
FlatArrays(members) ==
    IF members = <<>> THEN <<>>
    ELSE LET v == Head(members).value
         IN (IF v.t = "array" THEN [i \in 1..Len(v.a) |-> v.a[i].s] ELSE <<>>)
               \o FlatArrays(Tail(members))

\* lines 19-29: RESERVED_SUBDOMAINS, empty when the file could not be loaded
LoadReserved(source) == IF source = Unreadable THEN <<>> ELSE FlatArrays(source.members)

ReservedFile(members) == [t |-> "reservedfile", members |-> members]

Www == <<"w", "w", "w">>

ReservedSourcePool ==
    {Unreadable,
     ReservedFile(<<[key |-> "system", value |-> Arr(<<Str(Www)>>)]>>),
     ReservedFile(<<[key |-> "system", value |-> Arr(<<Str(Www), Str(sAB)>>)]>>),
     ReservedFile(<<[key |-> "system", value |-> Arr(<<Str(Www)>>)],
                    [key |-> "brands", value |-> Arr(<<Str(sAB)>>)]>>),
     ReservedFile(<<[key |-> "note", value |-> Str(sAB)],
                    [key |-> "system", value |-> Arr(<<Str(Www)>>)]>>),
     ReservedFile(<<[key |-> "system", value |-> Arr(<<Str(<<"A", "B">>)>>)]>>),
     ReservedFile(<<[key |-> "system", value |-> Arr(<<Str(Www)>>)],
                    [key |-> "brands", value |-> Arr(<<Str(<<"A", "b">>)>>)]>>)}

InitR ==
    InitValidator(DefinitionPool(sAB), {LoadReserved(src) : src \in ReservedSourcePool})

SpecR == InitR /\ [][NextV]_vars

\* C13 (as claimed): the reserved names are matched on a case-normalized
\* list.  A checked definition that passes the earlier checks has failed with
\* the reserved-subdomain reason, whatever its records, whenever its subdomain
\* equals an entry of the flattened reserved list without regard to the case
\* of the entry.
C13_ReservedMatchIgnoresCase ==
    (/\ verdict[VFile] # "unchecked"
     /\ \E i \in 1..Len(reserved) :
           ToLowerCase(reserved[i]) = ToLowerCase(VData.subdomain.s))
    => verdict[VFile] = "the subdomain is reserved and cannot be registered"

-----------------------------------------------------------------------------
(* Record keys (SpecK) *)

KTypes == {"A", "TXT", "NS", "foo"}

KNames == {Str(sAB), Str(sB)}

\* `proxied` absent, a boolean, a string
KProxied == {<<>>, [proxied |-> Bool(TRUE)], [proxied |-> S("yes")]}

\* no further key, or one key outside ALLOWED_RECORD_KEYS
KExtra == {<<>>, [comment |-> S("c")]}

\* records of each kind with a value that suits the kind, and two A records
\* whose value is no IPv4 address
KRecordPool ==
    {Obj([type |-> S(ty), name |-> n,
          value |-> IF ty = "A" THEN Str(V1) ELSE S("t")] @@ px @@ ex) :
        ty \in KTypes, n \in KNames, px \in KProxied, ex \in KExtra}
    \cup {Obj([type |-> S("A"), name |-> Str(sAB), value |-> Str(VBad)] @@ ex) :
             ex \in KExtra}

KDefinitionPool == {Definition(sAB, recs) : recs \in SeqsUpTo(KRecordPool, MaxRecords)}

InitK == InitValidator(KDefinitionPool, {<< <<"w", "w", "w">> >>})

SpecK == InitK /\ [][NextV]_vars

HasUnknownKey(k) == \E key \in DOMAIN VRecs[k].o : key \notin ALLOWED_RECORD_KEYS

\* C19 (as claimed): the record keys are checked before every check that
\* depends on the record's type, so a record with a key outside the allowed
\* set fails with the invalid-record-key reason whatever its type and its
\* other fields.
C19_UnknownKeyAlwaysKeyReason ==
    \A k \in 1..Len(VRecs) :
        (Reached(k) /\ HasUnknownKey(k)) => verdict[VFile] = "invalid record key"

\* C19 (amended): a record with a key outside the allowed set always fails.
\* The `proxied` rules and the NS/DS root-name rule are evaluated before the
\* keys and report their own reason; otherwise the reason is the
\* invalid-record-key reason, ahead of the type membership, the name checks
\* and the per-type field contracts.
C19_UnknownKeyAmended ==
    \A k \in 1..Len(VRecs) :
        (Reached(k) /\ HasUnknownKey(k)) =>
            LET r == VRecs[k].o
                type == RecordType(VRecs[k])
            IN verdict[VFile] =
                 IF "proxied" \in DOMAIN r /\ TypeOf(r.proxied) # "boolean"
                 THEN "'proxied' must be a boolean"
                 ELSE IF "proxied" \in DOMAIN r /\ type \notin {<<"A">>, <<"AAAA">>, <<"CNAME">>}
                 THEN "'proxied' is only allowed for A, AAAA, and CNAME records"
                 ELSE IF type = <<"NS">> /\ r.name # VData.subdomain
                 THEN "NS records must be set on the subdomain exactly, not a child"
                 ELSE IF type = <<"DS">> /\ r.name # VData.subdomain
                 THEN "DS records must be set on the subdomain exactly, not a child"
                 ELSE "invalid record key"

\* a record of an unsupported type, named after another subdomain and holding
\* an unknown key, has been rejected for its key after a record that passes
C19_Witness ==
    /\ Len(VRecs) = 2 /\ Reached(2)
    /\ VRecs[2] = Obj([type |-> S("foo"), name |-> Str(sB), value |-> S("t"),
                       comment |-> S("c")])
    /\ verdict[VFile] = "invalid record key"
    /\ vpc = "exit1"

-----------------------------------------------------------------------------
(* One added definition reconciled against an empty hostname scope (SpecB) *)

V6 == <<":", ":">>

ChildOfAB == <<"a", ".", "a", "b">>

\* A, AAAA and CNAME records with and without `proxied`, URL records on the
\* subdomain and on a child label, a TXT record, and the lower-case spellings
\* the validator accepts
BRecordPool ==
    {RecA(sAB, V1),
     Obj([type |-> S("A"), name |-> Str(sAB), value |-> Str(V1), proxied |-> Bool(TRUE)]),
     Obj([type |-> S("A"), name |-> Str(ChildOfAB), value |-> Str(V2),
          proxied |-> Bool(FALSE)]),
     Obj([type |-> S("AAAA"), name |-> Str(sAB), value |-> Str(V6)]),
     Obj([type |-> S("CNAME"), name |-> Str(sAB), value |-> S("t")]),
     Obj([type |-> S("CNAME"), name |-> Str(ChildOfAB), value |-> S("t"),
          proxied |-> Bool(TRUE)]),
     RecURL(sAB, "u1"),
     RecURL(ChildOfAB, "u2"),
     RecOf("TXT", Str(sAB)),
     RecOf("url", Str(sAB)),
     RecOf("a", Str(sAB))}

BDefinitionPool == {Definition(sAB, recs) : recs \in SeqsUpTo(BRecordPool, MaxRecords)}

\* the zone holds no record of the hostname; it may hold another subdomain's
BZonePool == {<<>>, <<Stored(buildPayload(RecA(sB, V1).o), 1)>>}

BRulesetPool ==
    {<<[id |-> 1, name |-> "limits", kind |-> "zone", phase |-> "http_ratelimit"]>>,
     <<[id |-> 1, name |-> "GitOps Redirects", kind |-> "zone", phase |-> RedirectPhase,
        rules |-> <<OldRule(Hostname(sB, CF_DOMAIN))>>]>>}

InitB ==
    /\ changes = <<[status |-> "A", file |-> FileOf(sAB)]>>
    /\ files \in {[f \in {FileOf(s) : s \in Subdomains} |->
                      IF f = FileOf(sAB) THEN d ELSE NoFile] : d \in BDefinitionPool}
    /\ zone \in BZonePool
    /\ nextId = Len(zone) + 1
    /\ rulesets \in BRulesetPool
    /\ reserved = <<Www>>
    /\ vpc = "validating"
    /\ vi = 1
    /\ verdict = [f \in {FileOf(s) : s \in Subdomains} |-> "unchecked"]
    /\ reads = {}
    /\ pc = "main"
    /\ run = 1
    /\ ci = 1
    /\ sub = <<>>
    /\ data = <<>>
    /\ existing = <<>>
    /\ keep = {}
    /\ ri = 1
    /\ di = 1
    /\ urlRecords = <<>>
    /\ rsIdx = 0
    /\ currentRules = <<>>
    /\ retpc = "next"
    /\ log = <<>>

NextB ==
    \/ ValidateFile
    \/ ValidatorDone
    \/ ApplyList
    \/ ApplyCreate
    \/ ApplyLoopEnd
    \/ CleanupEnd
    \/ SrList
    \/ SrCreate
    \/ SrGet
    \/ SrPut
    \/ Complete

SpecB == InitB /\ [][NextB]_vars

\* the payload the specification gives for a record of kind A, AAAA, CNAME
\* or URL, written out field by field
ExpectedPayload(r) ==
    IF r.type = S("URL")
    THEN [type |-> S("AAAA"), name |-> r.name, content |-> S("100::"),
          ttl |-> Num(1), proxied |-> Bool(TRUE)]
    ELSE [type |-> r.type, name |-> r.name, content |-> r.value, ttl |-> Num(1),
          proxied |-> IF "proxied" \in DOMAIN r THEN r.proxied ELSE Bool(FALSE)]

\* the create calls logged so far, in order
Creates == SelectSeq(log, LAMBDA e : e.op = "dns_create")

Canonical(r) == [r EXCEPT !.type = Str(ToUpperCase(ToStr(r.type)))]

\* C15 (as claimed): the record kind is decided without regard to case in both
\* scripts.  A record the validator accepts as kind A, AAAA, CNAME or URL in
\* any spelling gets the payload of that kind, and every record of kind URL
\* has a redirect rule once the file has been reconciled without a failure.
C15_KindDecidedIgnoringCase ==
    /\ \A k \in 1..Len(Creates) :
          RecordType(VRecs[k]) \in {<<"A">>, <<"AAAA">>, <<"CNAME">>, <<"URL">>}
             => Creates[k].target.body = ExpectedPayload(Canonical(VRecs[k].o))
    /\ (pc = "complete" /\ NoFailure) =>
          Len(RulesFor(RedirectRules, Hostname(sAB, CF_DOMAIN)))
             = Cardinality({k \in 1..Len(VRecs) : RecordType(VRecs[k]) = <<"URL">>})

\* the zone record the k-th create call of the file has made (nothing is
\* deleted from a scope that was empty)
CreatedRecord(k) == zone[Len(zone) - Len(Creates) + k]

\* C16 (as claimed): each URL record's redirect rule targets the hostname of
\* that record.  When the file has been reconciled without a failure, every
\* URL record, on the subdomain or on a child label, has a rule with its
\* target whose expression matches exactly the name of the AAAA record created
\* for it.
C16_RuleMatchesRecordHostname ==
    (pc = "complete" /\ NoFailure) =>
        \A k \in 1..Len(VRecs) :
            VRecs[k].o.type = S("URL") =>
                \E i \in 1..Len(RedirectRules) :
                    /\ RedirectRules[i].target_url = VRecs[k].o.value
                    /\ RedirectRules[i].expression = Expression(CreatedRecord(k).name.s)

-----------------------------------------------------------------------------
(* listAllRecords page by page (SpecL) *)

MaxZone == 1001

\* the provider's answer to dns_records?per_page=500&page=p
PageOf(z, page) ==
    LET from == (page - 1) * PER_PAGE + 1
        to   == IF page * PER_PAGE < Len(z) THEN page * PER_PAGE ELSE Len(z)
    IN SubSeq(z, from, to)

\* variant: a full page also ends the loop
LastPageOrFull(batch) == Len(batch) <= PER_PAGE

\* line 81: if (batch.length < 500) break
LastPage(batch) == Len(batch) < PER_PAGE

ZoneOfSize(n) == [i \in 1..n |-> [id |-> i]]

InitL ==
    /\ changes = <<[status |-> "D", file |-> FileOf(sAB)]>>
    /\ files = [f \in {FileOf(s) : s \in Subdomains} |-> NoFile]
    /\ zone \in {ZoneOfSize(n) : n \in 0..MaxZone}
    /\ nextId = Len(zone) + 1
    /\ rulesets = <<>>
    /\ reserved = <<Www>>
    /\ vpc = "passed"
    /\ vi = 2
    /\ verdict = [f \in {FileOf(s) : s \in Subdomains} |-> "unchecked"]
    /\ reads = {}
    /\ pc = "list_page"
    /\ run = 1
    /\ ci = 1
    /\ sub = sAB
    /\ data = <<>>
    /\ existing = <<>>
    /\ keep = {}
    /\ ri = 1
    /\ di = 1
    /\ urlRecords = <<>>
    /\ rsIdx = 0
    /\ currentRules = <<>>
    /\ retpc = "next"
    /\ log = <<>>

\* lines 76-83: one turn of the loop; `existing` holds records, `di` the page
ListPage ==
    /\ pc = "list_page"
    /\ LET batch == PageOf(zone, di)
       IN \E success \in BOOLEAN :
             /\ Call("dns_list", [id |-> 0, name |-> <<>>, page |-> di], success,
                     IF LastPage(batch) THEN "list_return" ELSE "list_page")
             /\ existing' = IF success THEN existing \o batch ELSE existing
             /\ di' = IF success /\ ~LastPage(batch) THEN di + 1 ELSE di
    /\ UNCHANGED <<inputVars, providerVars, validatorVars, redirectVars, reads, run, ci,
                   sub, data, keep, ri>>

\* line 85: return records
ListReturn ==
    /\ pc = "list_return"
    /\ pc' = "list_done"
    /\ UNCHANGED <<inputVars, providerVars, validatorVars, redirectVars, reads, run, ci,
                   sub, data, existing, keep, ri, di, log>>

NextL ==
    \/ ListPage
    \/ ListReturn

\* an awaited call completes, so the loop goes on while it can
SpecL == InitL /\ [][NextL]_vars /\ WF_vars(NextL)

\* C17: pagination.  For every zone size, listAllRecords ends (by a return,
\* or by the exception of a failed call); the pages are requested in order
\* starting at 1, page k + 1 is requested only after page k came back full,
\* the loop stops at the first page shorter than the page size, and what it
\* returns is every record of the zone exactly once, in the zone's order.
C17_Pagination ==
    /\ [](/\ \A k \in 1..Len(log) : log[k].target.page = k
          /\ \A k \in 1..(Len(log) - 1) : log[k].ok /\ Len(PageOf(zone, k)) = PER_PAGE
          /\ pc \in {"list_return", "list_done"} =>
                /\ Len(PageOf(zone, Len(log))) < PER_PAGE
                /\ Len(log) = (Len(zone) \div PER_PAGE) + 1
                /\ existing = zone
                /\ existing = listAllRecords(zone))
    /\ <>(pc \in {"list_done", "aborted"})

\* a zone of exactly two full pages has been listed with three requests, the
\* last one returning nothing
C17_Witness ==
    /\ pc = "list_done"
    /\ Len(zone) = 2 * PER_PAGE
    /\ Len(log) = 3
    /\ PageOf(zone, 3) = <<>>
    /\ Len(existing) = 2 * PER_PAGE

-----------------------------------------------------------------------------
(* Further properties of the reconciler, checked under Spec *)

\* the step issues the ruleset replace call
IssuesPut == Len(log') = Len(log) + 1 /\ log'[Len(log')].op = "rs_put"

\* the rules the specification asks for, one per URL record passed in
RulesAskedFor(hostname) ==
    [i \in 1..Len(urlRecords) |->
        [description |-> <<"Redirect: ">> \o hostname,
         expression  |-> Expression(hostname),
         action      |-> "redirect",
         target_url  |-> urlRecords[i].o.value,
         status_code |-> 301,
         preserve_query_string |-> TRUE]]

\* C18: the redirect write guard.  Once syncRedirects holds the current rules,
\* it issues the replace call if and only if there is a URL record to build a
\* rule from or the ruleset holds a rule for the hostname; a write that
\* succeeds leaves the kept rules followed by the new rules; a step that does
\* not write leaves the log and the rulesets alone, as on a deletion when the
\* ruleset holds no rule for the hostname.
C18_WriteGuard ==
    [][(pc = "sr_put") =>
          LET h == Hostname(sub, CF_DOMAIN)
          IN /\ IssuesPut <=> (Len(urlRecords) > 0 \/ RulesFor(currentRules, h) # <<>>)
             /\ (IssuesPut /\ log'[Len(log')].ok) =>
                   RedirectRules' = RulesNotFor(currentRules, h) \o RulesAskedFor(h)
             /\ ~IssuesPut => (log' = log /\ rulesets' = rulesets)
             /\ (retpc = "next" /\ RulesFor(currentRules, h) = <<>>) => ~IssuesPut]_vars

\* the second run of a deletion has gone through syncRedirects without a
\* write, the first run having written, while the ruleset held rules of other
\* hostnames
C18_Witness ==
    /\ pc = "main" /\ ci = 2 /\ run = 2 /\ NoFailure
    /\ Changes[1].status = "D"
    /\ \E i \in 1..Len(log) : log[i].run = 1 /\ log[i].ci = 1 /\ log[i].op = "rs_put"
    /\ \E i \in 1..Len(log) : log[i].run = 2 /\ log[i].ci = 1 /\ log[i].op = "rs_get"
    /\ \A i \in 1..Len(log) : log[i].run = 2 => log[i].op # "rs_put"
    /\ RedirectRules # <<>>

\* applyFile is at work on the change with index ci (or was ended there by a
\* failed call)
InApplyFile ==
    /\ pc \in {"af_loop", "af_cleanup", "sr_sets", "sr_create", "sr_get", "sr_put",
               "aborted"}
    /\ ci \in 1..Len(Changes)
    /\ Changes[ci].status # "D"

\* the calls of the current applyFile
OwnCalls == {i \in 1..Len(log) : log[i].run = run /\ log[i].ci = ci}

SnapshotIds == {existing[k].id : k \in 1..Len(existing)}

\* the ids the provider gave to the records created by the current applyFile
CreatedIds ==
    LET n == Cardinality({i \in OwnCalls : log[i].op = "dns_create" /\ log[i].ok})
    IN (nextId - n)..(nextId - 1)

\* C20: the call discipline of applyFile.  Within one applyFile no record is
\* deleted twice and no record that was updated is deleted; every update
\* targets a kept record of the snapshot and every delete a record of the
\* snapshot that is not kept; no record created by this applyFile is updated
\* or deleted by it; and the step that handles one desired record issues at
\* most one call, a create or an update.
C20_ApplyFileCallDiscipline ==
    /\ [](/\ \A i, j \in 1..Len(log) :
                (/\ i < j /\ log[i].run = log[j].run /\ log[i].ci = log[j].ci
                 /\ ChangeOf(i).status # "D"
                 /\ log[i].op \in {"dns_update", "dns_delete"}
                 /\ log[j].op = "dns_delete")
                => log[i].target.id # log[j].target.id
          /\ InApplyFile =>
                \A i \in OwnCalls :
                    /\ log[i].op = "dns_update" =>
                          log[i].target.id \in keep \cap SnapshotIds
                    /\ log[i].op = "dns_delete" =>
                          log[i].target.id \in SnapshotIds \ keep
                    /\ log[i].op \in {"dns_update", "dns_delete"} =>
                          log[i].target.id \notin CreatedIds)
    /\ [][(pc = "af_loop") =>
             IF ri' = ri + 1
             THEN \/ log' = log /\ zone' = zone
                  \/ /\ Len(log') = Len(log) + 1
                     /\ SubSeq(log', 1, Len(log)) = log
                     /\ log'[Len(log')].op \in {"dns_create", "dns_update"}
             ELSE log' = log /\ zone' = zone]_vars

\* one applyFile has kept a record without a call and deleted another record
\* of the snapshot, after an earlier applyFile of the run created a record and
\* deleted one
C20_Witness ==
    /\ InApplyFile /\ NoFailure /\ ci = 2
    /\ keep # {}
    /\ \E i \in OwnCalls : log[i].op = "dns_delete"
    /\ \A i \in OwnCalls : log[i].op \notin {"dns_update", "dns_create"}
    /\ \E i, j \in 1..Len(log) :
          /\ log[i].run = run /\ log[i].ci = 1 /\ log[i].op = "dns_create"
          /\ log[j].run = run /\ log[j].ci = 1 /\ log[j].op = "dns_delete"

====
